---------------------------- MODULE Spec2Model ----------------------------
(* Model of pyscf/pbc/lib/kpts_helper.py: the k-point deduplicator         *)
(* (unique), the momentum-conservation solvers (get_kconserv,              *)
(* get_kconserv3), the symmetry-orbit builder (KptsHelper), the nested     *)
(* array codec (describe_nested, nested_to_vector, vector_to_nested) and   *)
(* the antisymmetry checker (check_kpt_antiperm_symmetry).                 *)
(*                                                                         *)
(* Each component is a pure, single-threaded computation; it gets its own  *)
(* specification whose Init draws the inputs from bounded sets and whose   *)
(* actions are the iterations of its loops and its return.                 *)
EXTENDS Integers, Sequences, FiniteSets, TLC

VARIABLES
    \* ---- unique(kpts)
    u_kpts, u_i, uniq_kpts, uniq_index, uniq_inverse, seen, u_n, u_pc,
    \* ---- get_kconserv / KptsHelper.__init__ / transform_symm
    k_kpts, k_mesh, kconserv, k_N, completed, operation, symm_map, k_pos,
    k_pc, k_out,
    \* ---- get_kconserv3(cell, kpts, kijkab)
    g_kpts, g_mesh, g_kijkab, g_kconserv, g_i, g_j, g_pc, g_out,
    \* ---- describe_nested / nested_to_vector / vector_to_nested
    c_data, c_desc, c_vec, c_vector, c_struct, c_ensure, c_mod, c_result, c_pc,
    \* ---- check_kpt_antiperm_symmetry
    a_t, a_array, a_idx1, a_idx2, a_truediv, a_result, a_pc

uVars == <<u_kpts, u_i, uniq_kpts, uniq_index, uniq_inverse, seen, u_n, u_pc>>
kVars == <<k_kpts, k_mesh, kconserv, k_N, completed, operation, symm_map,
           k_pos, k_pc, k_out>>
gVars == <<g_kpts, g_mesh, g_kijkab, g_kconserv, g_i, g_j, g_pc, g_out>>
cVars == <<c_data, c_desc, c_vec, c_vector, c_struct, c_ensure, c_mod,
           c_result, c_pc>>
aVars == <<a_t, a_array, a_idx1, a_idx2, a_truediv, a_result, a_pc>>
vars == <<uVars, kVars, gVars, cVars, aVars>>
notU == <<kVars, gVars, cVars, aVars>>
notK == <<uVars, gVars, cVars, aVars>>
notG == <<uVars, kVars, cVars, aVars>>
notC == <<uVars, kVars, gVars, aVars>>
notA == <<uVars, kVars, gVars, cVars>>

(***************************************************************************)
(* Bounds and program constants                                            *)
(***************************************************************************)
\* largest number of k-points of an input of unique / get_kconserv
MaxNkpts == 3

\* largest number of k-points of an input of get_kconserv3
MaxNkpts3 == 2

\* largest number of nodes (arrays and sequences) of a nested structure
MaxNodes == 5

\* deepest nesting of sequences in a nested structure
MaxDepth == 4

\* extents of the 2-particle arrays given to check_kpt_antiperm_symmetry
AntiNkpts == 2
AntiNocc == 2
AntiNvir == 1

\* a k-point has three components (kpts_helper.py reshapes to (-1,3))
KDim == 3

\* KPT_DIFF_TOL, in the unit of the deduplicator's coordinates (half a
\* tolerance): two coordinates one unit apart are within tolerance, two
\* units apart are not.
KPT_DIFF_TOL == 2

Abs(x) == IF x < 0 THEN -x ELSE x

RECURSIVE SumOver(_, _)
SumOver(f, S) ==
    IF S = {} THEN 0
    ELSE LET x == CHOOSE y \in S : TRUE IN f[x] + SumOver(f, S \ {x})

\* abs(a - b).sum() of two k-points
AbsDiffSum(a, b) == SumOver([w \in 1..KDim |-> Abs(a[w] - b[w])], 1..KDim)

\* arrays are 0-based
Range0(n) == 0..(n - 1)

(***************************************************************************)
(* unique(kpts)                                                            *)
(***************************************************************************)
\* coordinates of the deduplicator's inputs, in units of KPT_DIFF_TOL / 2
UCoord == {0, 1}
UKptSet == [1..KDim -> UCoord]

\* idx = abs(kpt-kpts).sum(axis=1) < KPT_DIFF_TOL
CloseIdx(kpt, kpts) ==
    {j \in DOMAIN kpts : AbsDiffSum(kpt, kpts[j]) < KPT_DIFF_TOL}

\* uniq_inverse[idx] = n, with n incremented before the assignment
MarkInverseLate(inv, idx, n) ==
    [j \in DOMAIN inv |-> IF j \in idx THEN n + 1 ELSE inv[j]]

\* uniq_inverse[idx] = n
MarkInverse(inv, idx, n) ==
    [j \in DOMAIN inv |-> IF j \in idx THEN n ELSE inv[j]]

\* seen left as it was: no point is ever marked
MarkSeenLost(sn, idx) == sn

\* seen[idx] = True
MarkSeen(sn, idx) == [j \in DOMAIN sn |-> (j \in idx) \/ sn[j]]

UInit ==
    /\ \E n \in 1..MaxNkpts : u_kpts \in [Range0(n) -> UKptSet]
    /\ u_i = 0
    /\ uniq_kpts = <<>>
    /\ uniq_index = <<>>
    /\ uniq_inverse = [j \in DOMAIN u_kpts |-> 0]
    /\ seen = [j \in DOMAIN u_kpts |-> FALSE]
    /\ u_n = 0
    /\ u_pc = "loop"

UIdle ==
    /\ u_kpts = <<>> /\ u_i = 0 /\ uniq_kpts = <<>> /\ uniq_index = <<>>
    /\ uniq_inverse = <<>> /\ seen = <<>> /\ u_n = 0 /\ u_pc = "idle"

\* loop body, kpts[i] not seen yet: a new representative
UniqueNew ==
    /\ u_pc = "loop"
    /\ u_i \in DOMAIN u_kpts
    /\ ~seen[u_i]
    /\ LET idx == CloseIdx(u_kpts[u_i], u_kpts) IN
         /\ uniq_kpts' = Append(uniq_kpts, u_kpts[u_i])
         /\ uniq_index' = Append(uniq_index, u_i)
         /\ uniq_inverse' = MarkInverse(uniq_inverse, idx, u_n)
         /\ seen' = MarkSeen(seen, idx)
    /\ u_n' = u_n + 1
    /\ u_i' = u_i + 1
    /\ UNCHANGED <<u_kpts, u_pc, notU>>

\* loop body, kpts[i] already seen: nothing happens
UniqueSeen ==
    /\ u_pc = "loop"
    /\ u_i \in DOMAIN u_kpts
    /\ seen[u_i]
    /\ u_i' = u_i + 1
    /\ UNCHANGED <<u_kpts, uniq_kpts, uniq_index, uniq_inverse, seen, u_n,
                   u_pc, notU>>

\* return np.asarray(uniq_kpts), np.asarray(uniq_index), uniq_inverse
UniqueReturn ==
    /\ u_pc = "loop"
    /\ u_i \notin DOMAIN u_kpts
    /\ u_pc' = "done"
    /\ UNCHANGED <<u_kpts, u_i, uniq_kpts, uniq_index, uniq_inverse, seen,
                   u_n, notU>>

UNext == UniqueNew \/ UniqueSeen \/ UniqueReturn

\* the i-th unique k-point (uniq_kpts is a 0-based array in the code)
UniqAt(g) == uniq_kpts[g + 1]

(***************************************************************************)
(* get_kconserv(cell, kpts)                                                *)
(***************************************************************************)
\* The cell is a diagonal lattice; k-points are given in fractional
\* coordinates scaled by the mesh: component w of a k-point is an integer s
\* standing for s / mesh[w], so that (kpt . a)[w] = s / mesh[w].
\* The meshes of at most n points; the axes are ordered by their number of
\* points, as the solvers treat the three axes alike.
MeshSet(n) ==
    {m \in [1..KDim -> 1..n] :
        m[1] * m[2] * m[3] <= n /\ m[1] >= m[2] /\ m[2] >= m[3]}
MeshPoints(m) == {p \in [1..KDim -> Range0(m[1] + m[2] + m[3])] :
                    \A w \in 1..KDim : p[w] < m[w]}

\* np.rint(s / p): round to nearest, halves to even
Rint(s, p) ==
    LET q == s \div p
        r == s % p
    IN  IF 2 * r < p THEN q
        ELSE IF 2 * r > p THEN q + 1
        ELSE IF q % 2 = 0 THEN q ELSE q + 1

\* abs(x - rint(x)) for x = s / p, times p
Resid(s, p) == Abs(s - p * Rint(s, p))

MeshProd(m) == m[1] * m[2] * m[3]

\* sum over w of abs(x - rint(x)), times the product of the mesh
ResidSum(kv, m) ==
    SumOver([w \in 1..KDim |-> Resid(kv[w], m[w]) * (MeshProd(m) \div m[w])],
            1..KDim)

\* "< 1e-9": the sum is a multiple of 1 / MeshProd(m), so it is below 1e-9
\* exactly when it is below 1 / MeshProd(m)
IsLatticeVector(kv, m) == ResidSum(kv, m) < 1

VecAdd(a, b) == [w \in 1..KDim |-> a[w] + b[w]]
VecSub(a, b) == [w \in 1..KDim |-> a[w] - b[w]]

Triples(n) == Range0(n) \X Range0(n) \X Range0(n)

\* kpts[k] - kpts[l] + kpts[m] - kpts[n] is a reciprocal-lattice vector:
\* every fractional component is a whole number
Closes(kpts, m, k, l, mm, n) ==
    \A w \in 1..KDim :
        (kpts[k][w] - kpts[l][w] + kpts[mm][w] - kpts[n][w]) % m[w] = 0

\* for each triple exactly one index closes the conservation equation
WellFormed(kpts, m) ==
    \A t \in Triples(Cardinality(DOMAIN kpts)) :
        Cardinality({n \in DOMAIN kpts :
                       Closes(kpts, m, t[1], t[2], t[3], n)}) = 1

\* kvMLK = kpts[:,None,None,:] - kpts[:,None,:] + kpts, indexed [k,l,m]
kvMLKSwapped(kpts, k, l, m) == VecAdd(VecSub(kpts[l], kpts[k]), kpts[m])

kvMLK(kpts, k, l, m) == VecAdd(VecSub(kpts[k], kpts[l]), kpts[m])

\* kvMLKN = einsum('klmx,wx->mlkw', kvMLK - kvN, a): entry [m,l,k] of the
\* result is entry [k,l,m] of the operand
kvMLKN(kpts, N, i1, i2, i3) == VecSub(kvMLK(kpts, i3, i2, i1), kpts[N])

\* a mask that keeps an entry only for the first index that closes it
MaskFirstOnly(kpts, m, N, i1, i2, i3) ==
    /\ IsLatticeVector(kvMLKN(kpts, N, i3, i2, i1), m)
    /\ \A N2 \in Range0(N) : ~IsLatticeVector(kvMLKN(kpts, N2, i3, i2, i1), m)

\* mask = einsum('klmw->mlk', abs(kvMLKN - rint(kvMLKN))) < 1e-9: entry
\* [i1,i2,i3] of the mask is entry [i3,i2,i1] of kvMLKN
Mask(kpts, m, N, i1, i2, i3) == IsLatticeVector(kvMLKN(kpts, N, i3, i2, i1), m)

KInit ==
    /\ k_mesh \in MeshSet(MaxNkpts)
    /\ \E n \in 1..MaxNkpts : k_kpts \in [Range0(n) -> MeshPoints(k_mesh)]
    /\ kconserv = [t \in Triples(Cardinality(DOMAIN k_kpts)) |-> 0]
    /\ k_N = 0
    /\ completed = <<>>
    /\ operation = <<>>
    /\ symm_map = <<>>
    /\ k_pos = 0
    /\ k_pc = "kconserv"
    /\ k_out = <<>>

KIdle ==
    /\ k_kpts = <<>> /\ k_mesh = <<>> /\ kconserv = <<>> /\ k_N = 0
    /\ completed = <<>> /\ operation = <<>> /\ symm_map = <<>> /\ k_pos = 0
    /\ k_pc = "idle" /\ k_out = <<>>

Nkpts == Cardinality(DOMAIN k_kpts)

\* one iteration of "for N, kvN in enumerate(kpts)": kconserv[mask] = N
KconservIter ==
    /\ k_pc = "kconserv"
    /\ k_N < Nkpts
    /\ kconserv' = [t \in Triples(Nkpts) |->
                      IF Mask(k_kpts, k_mesh, k_N, t[1], t[2], t[3])
                      THEN k_N ELSE kconserv[t]]
    /\ k_N' = k_N + 1
    /\ UNCHANGED <<k_kpts, k_mesh, completed, operation, symm_map, k_pos,
                   k_pc, k_out, notK>>

(***************************************************************************)
(* KptsHelper.__init__ and transform_symm                                  *)
(***************************************************************************)
\* get_kconserv returns; completed, _operation and symm_map are created
HelperSetup ==
    /\ k_pc = "kconserv"
    /\ k_N = Nkpts
    /\ completed' = [t \in Triples(Nkpts) |-> FALSE]
    /\ operation' = [t \in Triples(Nkpts) |-> 0]
    /\ symm_map' = <<>>
    /\ k_pos' = 0
    /\ k_pc' = "orbits"
    /\ UNCHANGED <<k_kpts, k_mesh, kconserv, k_N, k_out, notK>>

\* lib.cartesian_prod((temp,temp,temp)): row i of the list, last index fastest
KptAt(pos, n) == <<pos \div (n * n), (pos \div n) % n, pos % n>>

\* the three images of (kp,kq,kr) with ks = kconserv[kp,kq,kr]
Image1(kp, kq, kr, ks) == <<kr, ks, kp>>
Image2Slip(kp, kq, kr, ks) == <<kq, kp, kr>>
Image2(kp, kq, kr, ks) == <<kq, kp, ks>>
Image3(kp, kq, kr, ks) == <<ks, kr, kq>>

\* the four members recorded for the key (kp,kq,kr), in the order written
Members(kp, kq, kr, ks) ==
    << <<kp, kq, kr>>, Image1(kp, kq, kr, ks), Image2(kp, kq, kr, ks),
       Image3(kp, kq, kr, ks) >>

\* a[t1] = v1; a[t2] = v2; ...: later assignments win
RECURSIVE AssignAll(_, _, _)
AssignAll(arr, ts, vals) ==
    IF ts = <<>> THEN arr
    ELSE AssignAll([arr EXCEPT ![Head(ts)] = Head(vals)], Tail(ts), Tail(vals))

\* loop body for a triple that is not completed: a new key and its members
OrbitNew ==
    /\ k_pc = "orbits"
    /\ k_pos < Nkpts * Nkpts * Nkpts
    /\ LET kpt == KptAt(k_pos, Nkpts)
           ks  == kconserv[kpt]
           mem == Members(kpt[1], kpt[2], kpt[3], ks)
       IN  /\ ~completed[kpt]
           /\ completed' = AssignAll(completed, mem, <<TRUE, TRUE, TRUE, TRUE>>)
           /\ operation' = AssignAll(operation, mem, <<0, 1, 2, 3>>)
           /\ symm_map' = Append(symm_map, [key |-> kpt, members |-> mem])
    /\ k_pos' = k_pos + 1
    /\ UNCHANGED <<k_kpts, k_mesh, kconserv, k_N, k_pc, k_out, notK>>

\* loop body for a completed triple
OrbitSkip ==
    /\ k_pc = "orbits"
    /\ k_pos < Nkpts * Nkpts * Nkpts
    /\ completed[KptAt(k_pos, Nkpts)]
    /\ k_pos' = k_pos + 1
    /\ UNCHANGED <<k_kpts, k_mesh, kconserv, k_N, completed, operation,
                   symm_map, k_pc, k_out, notK>>

\* the constructor returns
HelperDone ==
    /\ k_pc = "orbits"
    /\ k_pos = Nkpts * Nkpts * Nkpts
    /\ k_pc' = "done"
    /\ UNCHANGED <<k_kpts, k_mesh, kconserv, k_N, completed, operation,
                   symm_map, k_pos, k_out, notK>>

\* A tensor derived from the stored eri_kpt, described by the axis
\* permutation and the conjugation applied to it.
Stored == [axes |-> <<0, 1, 2, 3>>, conj |-> FALSE]

\* transform_symm(eri_kpt, kp, kq, kr) applied to the stored tensor
transform_symm(op) ==
    IF op = 0 THEN Stored
    ELSE IF op = 1 THEN [axes |-> <<2, 3, 0, 1>>, conj |-> FALSE]
    ELSE IF op = 2 THEN [axes |-> <<1, 0, 3, 2>>, conj |-> TRUE]
    ELSE IF op = 3 THEN [axes |-> <<3, 2, 1, 0>>, conj |-> TRUE]
    ELSE [axes |-> <<>>, conj |-> FALSE]   \* falls off the end: None

\* a call helper.transform_symm(eri_kpt, kp, kq, kr) on the constructed helper
TransformSymm ==
    /\ k_pc = "done"
    /\ \E t \in Triples(Nkpts) :
         k_out' = [kpt |-> t, eri |-> transform_symm(operation[t])]
    /\ k_pc' = "queried"
    /\ UNCHANGED <<k_kpts, k_mesh, kconserv, k_N, completed, operation,
                   symm_map, k_pos, notK>>

KNext ==
    \/ KconservIter
    \/ HelperSetup
    \/ OrbitNew
    \/ OrbitSkip
    \/ HelperDone
    \/ TransformSymm

(***************************************************************************)
(* get_kconserv3(cell, kpts, kijkab)                                       *)
(***************************************************************************)
\* An index group of kijkab: a single integer index (int = TRUE, idx holds
\* the one index) or a range of indices (int = FALSE).
IntGroup(i) == [int |-> TRUE, idx |-> <<i>>]
RangeGroup(n) == [int |-> FALSE, idx |-> [j \in 1..n |-> j - 1]]
GroupSet(n) == {IntGroup(i) : i \in Range0(n)} \cup {RangeGroup(1), RangeGroup(n)}

\* np.size(x)
GroupSize(x) == Len(x.idx)

\* kpts[x].reshape(-1,3): row pos of the k-points the group selects
GroupKpt(kpts, x, pos) == kpts[x.idx[pos + 1]]

\* the index tuples of an array of the given shape
RECURSIVE IndexSet(_)
IndexSet(shape) ==
    IF shape = <<>> THEN {<<>>}
    ELSE {<<h>> \o t : h \in Range0(Head(shape)), t \in IndexSet(Tail(shape))}

RECURSIVE ProdFrom(_, _)
\* shape[d] * shape[d+1] * ...
ProdFrom(shape, d) ==
    IF d > Len(shape) THEN 1 ELSE shape[d] * ProdFrom(shape, d + 1)

\* position of the entry ix in the row-major flattening of the array
FlatIndex(ix, shape) ==
    SumOver([d \in 1..Len(shape) |-> ix[d] * ProdFrom(shape, d + 1)],
            1..Len(shape))

\* the index tuple of the entry at position f of the flattening
Unflatten(f, shape) ==
    [d \in 1..Len(shape) |-> (f \div ProdFrom(shape, d + 1)) % shape[d]]

\* arr.reshape(new_shape) of an array of shape old_shape
Reshape(arr, old_shape, new_shape) ==
    [ix \in IndexSet(new_shape) |->
        arr[Unflatten(FlatIndex(ix, new_shape), old_shape)]]

RECURSIVE SelectSeqIdx(_, _)
\* [shape[i] for i, x in enumerate(kijkab) if not isinstance(x, int)]
SelectSeqIdx(kijkab, shape) ==
    IF kijkab = <<>> THEN <<>>
    ELSE IF Head(kijkab).int THEN SelectSeqIdx(Tail(kijkab), Tail(shape))
    ELSE <<Head(shape)>> \o SelectSeqIdx(Tail(kijkab), Tail(shape))

\* kv_kab + kpti + kptj with kv_kab = kpts_k - kpts_a - kpts_b, kptj left out
kv_ijkabNoJ(kpti, kptj, kptk, kpta, kptb) ==
    VecAdd(VecSub(VecSub(kptk, kpta), kptb), kpti)

\* kv_kab + kpti + kptj with kv_kab = kpts_k - kpts_a - kpts_b
kv_ijkab(kpti, kptj, kptk, kpta, kptb) ==
    VecAdd(VecAdd(VecSub(VecSub(kptk, kpta), kptb), kpti), kptj)

RECURSIVE LastMasked(_, _, _, _, _)
\* "for c, kptc in enumerate(kpts): ... kconserv[i,j,mask] = c" at one
\* entry: the entry keeps its value old unless some c is masked, and the
\* last masked c wins
LastMasked(kpts, m, kv, c, old) ==
    IF c = Cardinality(DOMAIN kpts) THEN old
    ELSE LastMasked(kpts, m, kv, c + 1,
                    IF IsLatticeVector(VecSub(kv, kpts[c]), m) THEN c ELSE old)

G3Shape == [d \in 1..5 |-> GroupSize(g_kijkab[d])]

GInit ==
    /\ g_mesh \in MeshSet(MaxNkpts3)
    /\ \E n \in 1..MaxNkpts3 : g_kpts \in [Range0(n) -> MeshPoints(g_mesh)]
    /\ WellFormed(g_kpts, g_mesh)
    /\ g_kijkab \in [1..5 -> GroupSet(Cardinality(DOMAIN g_kpts))]
    /\ g_kconserv = [ix \in IndexSet(G3Shape) |-> 0]
    /\ g_i = 0
    /\ g_j = 0
    /\ g_pc = "loop"
    /\ g_out = <<>>

GIdle ==
    /\ g_kpts = <<>> /\ g_mesh = <<>> /\ g_kijkab = <<>> /\ g_kconserv = <<>>
    /\ g_i = 0 /\ g_j = 0 /\ g_pc = "idle" /\ g_out = <<>>

\* one iteration of the loops over i and j, with its loop over c
Kconserv3Iter ==
    /\ g_pc = "loop"
    /\ g_i < GroupSize(g_kijkab[1])
    /\ g_kconserv' =
         [ix \in IndexSet(G3Shape) |->
            IF ix[1] = g_i /\ ix[2] = g_j
            THEN LastMasked(g_kpts, g_mesh,
                     kv_ijkab(GroupKpt(g_kpts, g_kijkab[1], g_i),
                              GroupKpt(g_kpts, g_kijkab[2], g_j),
                              GroupKpt(g_kpts, g_kijkab[3], ix[3]),
                              GroupKpt(g_kpts, g_kijkab[4], ix[4]),
                              GroupKpt(g_kpts, g_kijkab[5], ix[5])),
                     0, g_kconserv[ix])
            ELSE g_kconserv[ix]]
    /\ IF g_j + 1 < GroupSize(g_kijkab[2])
       THEN g_j' = g_j + 1 /\ g_i' = g_i
       ELSE g_j' = 0 /\ g_i' = g_i + 1
    /\ UNCHANGED <<g_kpts, g_mesh, g_kijkab, g_pc, g_out, notG>>

\* kconserv = kconserv.reshape(new_shape); return kconserv
Kconserv3Return ==
    /\ g_pc = "loop"
    /\ g_i = GroupSize(g_kijkab[1])
    /\ g_out' = Reshape(g_kconserv, G3Shape, SelectSeqIdx(g_kijkab, G3Shape))
    /\ g_pc' = "done"
    /\ UNCHANGED <<g_kpts, g_mesh, g_kijkab, g_kconserv, g_i, g_j, notG>>

GNext == Kconserv3Iter \/ Kconserv3Return

(***************************************************************************)
(* Nested-array codec: values                                              *)
(***************************************************************************)
\* A scalar is <<re, im>>.  A Python value is an ndarray or a list/tuple:
\*   [kind |-> "array", shape, dtype, data (row-major), items |-> <<>>]
\*   [kind |-> "list",  items |-> <<values>>, ...]
NdArray(shape, dtype, data) ==
    [kind |-> "array", shape |-> shape, dtype |-> dtype, data |-> data,
     items |-> <<>>]
PyList(items) ==
    [kind |-> "list", shape |-> <<>>, dtype |-> "", data |-> <<>>,
     items |-> items]

\* A descriptor node is a dict or a list/tuple of descriptors:
\*   dict(type="array", shape=...)
\*   dict(type="composite", shape=..., dtype=..., data=<descriptor>)
ArrayDesc(shape) ==
    [kind |-> "dict", type |-> "array", shape |-> shape, dtype |-> "",
     data |-> <<>>, items |-> <<>>]
CompositeDesc(shape, dtype, sub) ==
    [kind |-> "dict", type |-> "composite", shape |-> shape, dtype |-> dtype,
     data |-> <<sub>>, items |-> <<>>]
ListDesc(items) ==
    [kind |-> "list", type |-> "", shape |-> <<>>, dtype |-> "",
     data |-> <<>>, items |-> items]

\* assignment into an array of another dtype casts; a complex value cast to
\* a real dtype loses its imaginary part (numpy warns and goes on)
Cast(v, dtype) == IF dtype = "complex128" THEN v ELSE <<v[1], 0>>

\* np.empty / np.zeros with dtype=None make a float64 array
DefaultDtype(dtype) == IF dtype = "None" THEN "float64" ELSE dtype

\* the content of np.empty before it is written
Unwritten == <<-1, -1>>

\* np.prod(shape); of an empty shape numpy returns the float 1.0
Prod(shape) == ProdFrom(shape, 1)
ProdIsFloat(shape) == shape = <<>>

(***************************************************************************)
(* describe_nested(data)                                                   *)
(***************************************************************************)
\* dtype = i_dtype
NextDtype(dtype, i_dtype) == i_dtype

RECURSIVE describe_nested(_)
RECURSIVE DescribeItems(_, _, _, _, _)
\* the loop "for i in data" of describe_nested, from item k on
DescribeItems(items, k, struct, total_size, dtype) ==
    IF k > Len(items)
    THEN [err |-> "", struct |-> ListDesc(struct), size |-> total_size,
          dtype |-> dtype]
    ELSE LET r == describe_nested(items[k]) IN
         IF r.err # "" THEN r
         ELSE IF dtype # "None" /\ r.dtype # "None" /\ r.dtype # dtype
         THEN [err |-> "ValueError", struct |-> ListDesc(<<>>), size |-> 0,
               dtype |-> "None"]
         ELSE DescribeItems(items, k + 1, Append(struct, r.struct),
                            total_size + r.size, NextDtype(dtype, r.dtype))

describe_nested(data) ==
    IF data.kind = "array"
    THEN [err |-> "", struct |-> ArrayDesc(data.shape),
          size |-> Len(data.data), dtype |-> data.dtype]
    ELSE IF data.kind = "list"
    THEN DescribeItems(data.items, 1, <<>>, 0, "None")
    ELSE [err |-> "ValueError", struct |-> ListDesc(<<>>), size |-> 0,
          dtype |-> "None"]

(***************************************************************************)
(* nested_to_vector(data)                                                  *)
(***************************************************************************)
\* destination[offset:offset + len(values)] = values
AssignSlice(dest, dtype, offset, values) ==
    [k \in 1..Len(dest) |->
        IF offset < k /\ k <= offset + Len(values)
        THEN Cast(values[k - offset], dtype) ELSE dest[k]]

RECURSIVE NestedInto(_, _, _, _)
RECURSIVE NestedIntoItems(_, _, _, _, _)
\* "for i in data: offset = nested_to_vector(i, destination, offset)"
NestedIntoItems(items, k, dest, dtype, offset) ==
    IF k > Len(items) THEN [dest |-> dest, offset |-> offset]
    ELSE LET r == NestedInto(items[k], dest, dtype, offset)
         IN  NestedIntoItems(items, k + 1, r.dest, dtype, r.offset)

\* nested_to_vector(data, destination, offset) with a destination
NestedInto(data, dest, dtype, offset) ==
    IF data.kind = "array"
    THEN [dest |-> AssignSlice(dest, dtype, offset, data.data),
          offset |-> offset + Len(data.data)]
    ELSE NestedIntoItems(data.items, 1, dest, dtype, offset)

\* nested_to_vector(data): (destination, struct) or the error raised
nested_to_vector(data) ==
    LET d == describe_nested(data) IN
    IF d.err # "" THEN [err |-> d.err, vec |-> NdArray(<<0>>, "", <<>>),
                        struct |-> d.struct]
    ELSE LET dtype == DefaultDtype(d.dtype)
             empty == [k \in 1..d.size |-> Unwritten]
             r     == NestedInto(data, empty, dtype, 0)
         IN  [err |-> "", vec |-> NdArray(<<d.size>>, dtype, r.dest),
              struct |-> d.struct]

(***************************************************************************)
(* vector_to_nested(vector, struct, copy, ensure_size_matches,             *)
(*                  destination, destination_indexes)                      *)
(***************************************************************************)
\* The result of a call: the error raised (err # ""), or the value returned;
\* tup tells that the call returned the pair (val, size) rather than val.
\* Copies and views of the vector have the same value, so copy is left out.
Raise(e) == [err |-> e, val |-> PyList(<<>>), size |-> 0, tup |-> FALSE]
Return(val, size, tup) == [err |-> "", val |-> val, size |-> size, tup |-> tup]

\* destination=None, or the array to write to
NoDest == [none |-> TRUE, shape |-> <<>>, dtype |-> "", data |-> <<>>]
Dest(shape, dtype, data) ==
    [none |-> FALSE, shape |-> shape, dtype |-> dtype, data |-> data]
DestArray(dest) == NdArray(dest.shape, dest.dtype, dest.data)

\* vector[offset:]
VSlice(vector, offset) ==
    LET rest == SubSeq(vector.data, offset + 1, Len(vector.data))
    IN  NdArray(<<Len(rest)>>, vector.dtype, rest)

\* np.zeros(shape, dtype=dtype)
Zeros(shape, dtype) ==
    Dest(shape, DefaultDtype(dtype), [k \in 1..Prod(shape) |-> <<0, 0>>])

\* destination.shape[len(destination_indexes):]
ShapeAfter(dest, idxs) == SubSeq(dest.shape, Len(idxs) + 1, Len(dest.shape))

\* destination[np.ix_(*destination_indexes)] = values.reshape(shape): the
\* block of the destination under the leading indexes is overwritten
DestAssign(dest, idxs, values) ==
    LET start == SumOver([d \in 1..Len(idxs) |->
                             idxs[d] * ProdFrom(dest.shape, d + 1)],
                         1..Len(idxs))
    IN  Dest(dest.shape, dest.dtype,
             AssignSlice(dest.data, dest.dtype, start, values))

\* "vector.size != expected": less instead of different
SizeTooSmall(vsize, expected) == vsize < expected

\* the test "vector.size != expected_size" / "vector.size != offset"
SizeDiffers(vsize, expected) == vsize # expected

RECURSIVE vector_to_nested(_, _, _, _, _)
RECURSIVE RestoreItems(_, _, _, _, _)
RECURSIVE RestoreIntoItems(_, _, _, _, _, _)

\* the loop of the nested case without a destination, from item k on:
\*   nested, size = vector_to_nested(vector[offset:], i, ensure_size_matches=False)
RestoreItems(vector, items, k, offset, result) ==
    IF k > Len(items) THEN Return(PyList(result), offset, TRUE)
    ELSE LET r == vector_to_nested(VSlice(vector, offset), items[k], FALSE,
                                   NoDest, <<>>)
         IN  IF r.err # "" THEN r
             ELSE IF ~r.tup THEN Raise("TypeError")
             ELSE RestoreItems(vector, items, k + 1, offset + r.size,
                               Append(result, r.val))

\* the loop of the nested case with a destination, from item k on:
\*   offset += vector_to_nested(vector[offset:], element,
\*                 ensure_size_matches=False, destination=destination,
\*                 destination_indexes=destination_indexes + ((i,),))
\* Adding the pair a call returns to the integer offset raises TypeError.
RestoreIntoItems(vector, items, k, offset, dest, idxs) ==
    IF k > Len(items) THEN Return(DestArray(dest), offset, TRUE)
    ELSE LET r == vector_to_nested(VSlice(vector, offset), items[k], FALSE,
                                   dest, Append(idxs, k - 1))
         IN  IF r.err # "" THEN r
             ELSE IF r.tup THEN Raise("TypeError")
             ELSE RestoreIntoItems(vector, items, k + 1, offset + r.size,
                      Dest(r.val.shape, r.val.dtype, r.val.data), idxs)

vector_to_nested(vector, struct, ensure_size_matches, dest, idxs) ==
    IF struct.kind = "dict" THEN
        IF struct.type = "array" THEN
            LET shape == struct.shape
                expected_size == Prod(shape)
                vsize == Len(vector.data)
            IN  IF ensure_size_matches /\ SizeDiffers(vsize, expected_size)
                THEN Raise("ValueError")
                ELSE IF vsize < expected_size THEN Raise("ValueError")
                ELSE IF dest.none THEN
                    \* vector[:expected_size] with a float bound
                    IF ProdIsFloat(shape) THEN Raise("TypeError")
                    ELSE Return(NdArray(shape, vector.dtype,
                                        SubSeq(vector.data, 1, expected_size)),
                                expected_size, ~ensure_size_matches)
                ELSE IF shape # ShapeAfter(dest, idxs) THEN Raise("ValueError")
                ELSE IF ProdIsFloat(shape) THEN Raise("TypeError")
                ELSE Return(DestArray(DestAssign(dest, idxs,
                                SubSeq(vector.data, 1, expected_size))),
                            expected_size, ~ensure_size_matches)
        ELSE IF struct.type = "composite" THEN
            IF dest.none
            THEN vector_to_nested(vector, struct.data[1], ensure_size_matches,
                                  Zeros(struct.shape, struct.dtype), <<>>)
            ELSE IF struct.shape # ShapeAfter(dest, idxs)
            THEN Raise("ValueError")
            ELSE IF struct.dtype # dest.dtype THEN Raise("ValueError")
            ELSE vector_to_nested(vector, struct.data[1], ensure_size_matches,
                                  dest, idxs)
        ELSE Raise("ValueError")
    ELSE IF struct.kind = "list" THEN
        IF dest.none THEN
            LET r == RestoreItems(vector, struct.items, 1, 0, <<>>) IN
            IF r.err # "" THEN r
            ELSE IF ensure_size_matches
            THEN IF SizeDiffers(Len(vector.data), r.size)
                 THEN Raise("ValueError")
                 ELSE Return(r.val, r.size, FALSE)
            ELSE r
        ELSE IF Len(idxs) >= Len(dest.shape) THEN Raise("IndexError")
        ELSE IF Len(struct.items) # dest.shape[Len(idxs) + 1]
        THEN Raise("ValueError")
        ELSE
            LET r == RestoreIntoItems(vector, struct.items, 1, 0, dest, idxs) IN
            IF r.err # "" THEN r
            ELSE IF ensure_size_matches
            THEN IF SizeDiffers(Len(vector.data), r.size)
                 THEN Raise("ValueError")
                 ELSE Return(r.val, r.size, FALSE)
            ELSE r
    ELSE Raise("ValueError")

(***************************************************************************)
(* Codec: inputs and calls                                                 *)
(***************************************************************************)
LeafShapes == {<<2>>, <<2, 1>>}
Dtypes == {"int64", "complex128"}

\* the content of an input array: element k is k, or k + k j if complex
Fill(dtype, n) ==
    [k \in 1..n |-> IF dtype = "complex128" THEN <<k, k>> ELSE <<k, 0>>]

LeafSet == {NdArray(sh, dt, Fill(dt, Prod(sh))) : sh \in LeafShapes, dt \in Dtypes}

RECURSIVE NodeCount(_)
RECURSIVE NodeCountItems(_, _)
NodeCountItems(items, k) ==
    IF k > Len(items) THEN 0
    ELSE NodeCount(items[k]) + NodeCountItems(items, k + 1)
NodeCount(data) == 1 + NodeCountItems(data.items, 1)

RECURSIVE Tree(_, _)
RECURSIVE Forest(_, _)
\* the sequences of structures of depth <= d with at most n nodes in all
Forest(d, n) ==
    {<<>>} \cup UNION {{<<t>> \o f : f \in Forest(d, n - NodeCount(t))} :
                          t \in Tree(d, n)}
\* the nested structures with sequences nested at most d deep and at most
\* n nodes
Tree(d, n) ==
    IF n = 0 THEN {}
    ELSE LeafSet \cup
         (IF d = 0 THEN {} ELSE {PyList(f) : f \in Forest(d - 1, n - 1)})

RECURSIVE ArrayPaths(_)
\* the positions of the "array" leaves of a descriptor
ArrayPaths(desc) ==
    IF desc.kind = "dict" THEN {<<>>}
    ELSE UNION {{<<k>> \o p : p \in ArrayPaths(desc.items[k])} :
                   k \in 1..Len(desc.items)}

RECURSIVE DescAt(_, _)
DescAt(desc, path) ==
    IF path = <<>> THEN desc ELSE DescAt(desc.items[Head(path)], Tail(path))

RECURSIVE RewriteAt(_, _, _)
\* the descriptor with the node at path replaced
RewriteAt(desc, path, new) ==
    IF path = <<>> THEN new
    ELSE ListDesc([desc.items EXCEPT
                     ![Head(path)] = RewriteAt(@, Tail(path), new)])

\* dict(type="composite", dtype=..., shape=(n, d1, ...),
\*      data=(dict(type="array", shape=(d1, ...)),) * n)
CompositeOf(leaf, dtype) ==
    CompositeDesc(leaf.shape, dtype,
        ListDesc([k \in 1..Head(leaf.shape) |-> ArrayDesc(Tail(leaf.shape))]))

\* the buffer with its last element dropped, or with one element more
Shorter(vec) ==
    NdArray(<<Len(vec.data) - 1>>, vec.dtype,
            SubSeq(vec.data, 1, Len(vec.data) - 1))
Longer(vec) ==
    NdArray(<<Len(vec.data) + 1>>, vec.dtype, Append(vec.data, <<0, 0>>))

NoResult == Raise("")

CInit ==
    /\ c_data \in Tree(MaxDepth, MaxNodes)
    /\ c_desc = <<>>
    /\ c_vec = <<>>
    /\ c_vector = <<>>
    /\ c_struct = <<>>
    /\ c_ensure = TRUE
    /\ c_mod = FALSE
    /\ c_result = NoResult
    /\ c_pc = "start"

CIdle ==
    /\ c_data = <<>> /\ c_desc = <<>> /\ c_vec = <<>> /\ c_vector = <<>>
    /\ c_struct = <<>> /\ c_ensure = TRUE /\ c_mod = FALSE
    /\ c_result = NoResult /\ c_pc = "idle"

\* vec, desc = nested_to_vector(data)
NestedToVector ==
    /\ c_pc = "start"
    /\ LET r == nested_to_vector(c_data) IN
         /\ c_desc' = describe_nested(c_data)
         /\ c_vec' = r.vec
         /\ c_pc' = IF r.err = "" THEN "flattened" ELSE "failed"
    /\ UNCHANGED <<c_data, c_vector, c_struct, c_ensure, c_mod, c_result, notC>>

\* vector_to_nested(vector, struct, ensure_size_matches=...): the vector is
\* the buffer of nested_to_vector or one element shorter or longer, the
\* struct is its descriptor
VectorToNested ==
    /\ c_pc = "flattened"
    /\ \E vector \in {c_vec, Longer(c_vec)} \cup
                     (IF c_vec.data = <<>> THEN {} ELSE {Shorter(c_vec)}),
          ensure \in BOOLEAN :
         /\ c_vector' = vector
         /\ c_struct' = c_desc.struct
         /\ c_ensure' = ensure
         /\ c_mod' = FALSE
         /\ c_result' = vector_to_nested(vector, c_desc.struct, ensure,
                                         NoDest, <<>>)
    /\ c_pc' = "restored"
    /\ UNCHANGED <<c_data, c_desc, c_vec, notC>>

\* vector_to_nested(vec, struct) where struct is the descriptor with one
\* "array" leaf rewritten as a "composite" of its rows
VectorToNestedComposite ==
    /\ c_pc = "flattened"
    /\ \E path \in ArrayPaths(c_desc.struct) :
         LET struct == RewriteAt(c_desc.struct, path,
                           CompositeOf(DescAt(c_desc.struct, path), c_vec.dtype))
         IN  /\ c_struct' = struct
             /\ c_result' = vector_to_nested(c_vec, struct, TRUE, NoDest, <<>>)
    /\ c_vector' = c_vec
    /\ c_ensure' = TRUE
    /\ c_mod' = TRUE
    /\ c_pc' = "restored"
    /\ UNCHANGED <<c_data, c_desc, c_vec, notC>>

CNext == NestedToVector \/ VectorToNested \/ VectorToNestedComposite

(***************************************************************************)
(* check_kpt_antiperm_symmetry(array, idx1, idx2, tolerance=1e-8)          *)
(***************************************************************************)
\* An array is [shape |-> ..., at |-> function from index tuples to values];
\* the values are integers.
T2Shape == <<AntiNkpts, AntiNkpts, AntiNkpts, AntiNocc, AntiNocc, AntiNvir,
             AntiNvir>>

\* array.transpose(axes), axes 0-based: axis d of the result is axis axes[d]
\* of the array
Transpose(arr, axes) ==
    LET shape == [d \in 1..Len(axes) |-> arr.shape[axes[d] + 1]]
        src(ix) == [e \in 1..Len(axes) |->
                      ix[CHOOSE d \in 1..Len(axes) : axes[d] + 1 = e]]
    IN  [shape |-> shape, at |-> [ix \in IndexSet(shape) |-> arr.at[src(ix)]]]

\* a + b of two arrays of one shape
ArrAdd(a, b) ==
    [shape |-> a.shape, at |-> [ix \in DOMAIN a.at |-> a.at[ix] + b.at[ix]]]

\* np.linalg.norm(a) squared
NormSq(a) == SumOver([ix \in DOMAIN a.at |-> a.at[ix] * a.at[ix]], DOMAIN a.at)

\* np.arange(n) with the entries at positions i and j exchanged (0-based)
SwapAxes(perm, i, j) ==
    [d \in 1..Len(perm) |->
        IF d = i + 1 THEN perm[j + 1]
        ELSE IF d = j + 1 THEN perm[i + 1] ELSE perm[d]]

\* The result of check_kpt_antiperm_symmetry: "True", "False", or the
\* exception raised.  truediv tells whether "/" is Python 3's true division
\* or Python 2's integer division: nparticles = (array_shape_len + 1) / 4 is
\* the float (array_shape_len + 1) / 4 in the first case and the integer
\* quotient in the second.
check_kpt_antiperm_symmetry(array, idx1, idx2, truediv) ==
    LET array_shape_len == Len(array.shape)
        nparticles == (array_shape_len + 1) \div 4
        \* idx < 2 * nparticles - 1
        below(idx) == IF truediv THEN 2 * idx < (array_shape_len + 1) - 2
                      ELSE idx < 2 * nparticles - 1
        \* nparticles > 3
        too_many == IF truediv THEN array_shape_len + 1 > 12
                    ELSE nparticles > 3
        orb_idx1 == (2 * nparticles - 1) + idx1
        orb_idx2 == (2 * nparticles - 1) + idx2
        arange == [d \in 1..array_shape_len |-> d - 1]
        out_array_indices ==
            SwapAxes(SwapAxes(arange, idx1, idx2), orb_idx1, orb_idx2)
    IN  IF ~(idx1 >= 0 /\ idx2 >= 0) THEN "AssertionError"
        ELSE IF ~(below(idx1) /\ below(idx2)) THEN "AssertionError"
        ELSE IF too_many THEN "NotImplementedError"
        \* out_array_indices[orb_idx1] with the float orb_idx1
        ELSE IF truediv THEN "IndexError"
        \* the norm of an integer array is below 1e-8 iff its square is below 1
        ELSE IF NormSq(ArrAdd(array, Transpose(array, out_array_indices))) < 1
        THEN "True" ELSE "False"

\* the index tuple with the first two particles exchanged
Exchanged(e) == <<e[2], e[1], e[3], e[5], e[4], e[6], e[7]>>

\* an array of shape T2Shape: v1 at e, v2 more at the exchanged index tuple
\* and 0 elsewhere
Spikes(e, v1, v2) ==
    [shape |-> T2Shape,
     at |-> [ix \in IndexSet(T2Shape) |->
               (IF ix = e THEN v1 ELSE 0) + (IF ix = Exchanged(e) THEN v2 ELSE 0)]]

AInit ==
    /\ \E e \in IndexSet(T2Shape), v1, v2 \in {-1, 0, 1} :
         a_t = Spikes(e, v1, v2)
    /\ a_array = <<>>
    /\ a_idx1 = 0
    /\ a_idx2 = 0
    /\ a_truediv \in BOOLEAN
    /\ a_result = ""
    /\ a_pc = "start"

AIdle ==
    /\ a_t = <<>> /\ a_array = <<>> /\ a_idx1 = 0 /\ a_idx2 = 0
    /\ a_truediv = FALSE /\ a_result = "" /\ a_pc = "idle"

\* the docstring's example: t2 = t2 + t2.transpose(1,0,2,4,3,5,6)
Symmetrize ==
    /\ a_pc = "start"
    /\ a_array' = ArrAdd(a_t, Transpose(a_t, <<1, 0, 2, 4, 3, 5, 6>>))
    /\ a_pc' = "built"
    /\ UNCHANGED <<a_t, a_idx1, a_idx2, a_truediv, a_result, notA>>

\* the array is used as it is
AsGiven ==
    /\ a_pc = "start"
    /\ a_array' = a_t
    /\ a_pc' = "given"
    /\ UNCHANGED <<a_t, a_idx1, a_idx2, a_truediv, a_result, notA>>

\* check_kpt_antiperm_symmetry(array, idx1, idx2)
CheckAntiperm ==
    /\ a_pc \in {"built", "given"}
    /\ \E i1, i2 \in {0, 1} :
         /\ a_idx1' = i1
         /\ a_idx2' = i2
         /\ a_result' = check_kpt_antiperm_symmetry(a_array, i1, i2, a_truediv)
    /\ a_pc' = IF a_pc = "built" THEN "checked_built" ELSE "checked_given"
    /\ UNCHANGED <<a_t, a_array, a_truediv, notA>>

ANext == Symmetrize \/ AsGiven \/ CheckAntiperm

(***************************************************************************)
(* Specifications                                                          *)
(***************************************************************************)
InitUnique == UInit /\ KIdle /\ GIdle /\ CIdle /\ AIdle
InitKpts == KInit /\ UIdle /\ GIdle /\ CIdle /\ AIdle
InitKpts3 == GInit /\ UIdle /\ KIdle /\ CIdle /\ AIdle
InitCodec == CInit /\ UIdle /\ KIdle /\ GIdle /\ AIdle
InitAntiperm == AInit /\ UIdle /\ KIdle /\ GIdle /\ CIdle
SpecUnique == InitUnique /\ [][UNext]_vars
SpecKpts == InitKpts /\ [][KNext]_vars
SpecKpts3 == InitKpts3 /\ [][GNext]_vars
SpecCodec == InitCodec /\ [][CNext]_vars
SpecAntiperm == InitAntiperm /\ [][ANext]_vars

(***************************************************************************)
(* Reference notions used by the properties                                *)
(***************************************************************************)
\* get_kconserv has returned its array
KconservReturned == k_pc \in {"orbits", "done", "queried"}

\* the KptsHelper is constructed
Constructed == k_pc \in {"done", "queried"}

\* the keys of symm_map whose member list holds the triple t
KeysListing(t) ==
    {i \in DOMAIN symm_map :
        \E j \in 1..Len(symm_map[i].members) : symm_map[i].members[j] = t}

IsKey(t) == \E i \in DOMAIN symm_map : symm_map[i].key = t

(***************************************************************************)
(* Properties                                                              *)
(***************************************************************************)
\* C5: after KptsHelper construction on a momentum-conserving grid every
\* ordered triple (p,q,r) is in the member list of exactly one key of
\* symm_map.
OrbitPartition ==
    (Constructed /\ WellFormed(k_kpts, k_mesh)) =>
        \A t \in Triples(Nkpts) : Cardinality(KeysListing(t)) = 1

\* C5 witness: a constructed helper on a well-formed three-point grid with
\* several keys, one of them with four distinct members
OrbitPartitionWitness ==
    /\ Constructed
    /\ WellFormed(k_kpts, k_mesh)
    /\ Nkpts = 3
    /\ Len(symm_map) > 1
    /\ \E i \in DOMAIN symm_map :
          Cardinality({symm_map[i].members[j] : j \in 1..4}) = 4

\* C6: after KptsHelper construction, every key of symm_map has operation
\* code 0, and transform_symm at a key returns the stored tensor unchanged.
CanonicalIsOperationZero ==
    (Constructed /\ WellFormed(k_kpts, k_mesh)) =>
        /\ \A i \in DOMAIN symm_map : operation[symm_map[i].key] = 0
        /\ (k_pc = "queried" /\ IsKey(k_out.kpt)) => k_out.eri = Stored

\* C7: on a well-formed grid, get_kconserv returns at [k,l,m] the index n
\* for which kpts[k] - kpts[l] + kpts[m] - kpts[n] is a reciprocal-lattice
\* vector.
KconservClosesKLM ==
    (KconservReturned /\ WellFormed(k_kpts, k_mesh)) =>
        \A t \in Triples(Nkpts) :
            /\ kconserv[t] \in DOMAIN k_kpts
            /\ Closes(k_kpts, k_mesh, t[1], t[2], t[3], kconserv[t])

\* C7 witness: a returned array on a well-formed three-point grid in which
\* exchanging the first two indices changes the entry
KconservClosesKLMWitness ==
    /\ KconservReturned
    /\ WellFormed(k_kpts, k_mesh)
    /\ Nkpts = 3
    /\ \E t \in Triples(Nkpts) : kconserv[t] # kconserv[<<t[2], t[1], t[3]>>]

\* the indices that close the conservation equation of the triple t
Closers(t) ==
    {n \in DOMAIN k_kpts : Closes(k_kpts, k_mesh, t[1], t[2], t[3], n)}

\* the largest element of a non-empty set of indices
MaxOf(S) == CHOOSE x \in S : \A y \in S : y <= x

\* get_kconserv has just returned its array to the constructor
KconservJustReturned == k_pc = "orbits" /\ k_pos = 0

\* C11: get_kconserv returns an array on every grid, well-formed or not; the
\* entry of a triple that no index closes is 0, and the entry of a triple
\* that several indices close is the largest of them.
KconservSilentOnMalformed ==
    KconservJustReturned =>
        /\ DOMAIN kconserv = Triples(Nkpts)
        /\ \A t \in Triples(Nkpts) :
              LET ns == Closers(t) IN
                /\ kconserv[t] \in DOMAIN k_kpts
                /\ ns = {} => kconserv[t] = 0
                /\ ns # {} => kconserv[t] = MaxOf(ns)

\* C11 witness: an array returned for a grid that is not well-formed, with
\* one triple that no index closes (entry 0, while index 0 does not close
\* it) and another that two indices close (entry the larger one)
KconservSilentOnMalformedWitness ==
    /\ KconservJustReturned
    /\ ~WellFormed(k_kpts, k_mesh)
    /\ \E t \in Triples(Nkpts) :
          /\ Closers(t) = {}
          /\ kconserv[t] = 0
    /\ \E t \in Triples(Nkpts) :
          /\ Cardinality(Closers(t)) >= 2
          /\ kconserv[t] = MaxOf(Closers(t))
          /\ \E n \in Closers(t) : n < kconserv[t]

\* C9: unique returns (uniq_kpts, index, inverse) with
\* uniq_kpts[inverse[i]] within KPT_DIFF_TOL of kpts[i] for every i.
InverseWithinTolerance ==
    u_pc = "done" =>
        \A i \in DOMAIN u_kpts :
            /\ uniq_inverse[i] \in Range0(Len(uniq_kpts))
            /\ AbsDiffSum(UniqAt(uniq_inverse[i]), u_kpts[i]) < KPT_DIFF_TOL

\* C9 witness: unique has returned on an input where closeness is not
\* transitive and a later group took a point over from an earlier one
InverseWithinToleranceWitness ==
    /\ u_pc = "done"
    /\ \E i, j, k \in DOMAIN u_kpts :
          /\ i < j /\ j < k
          /\ AbsDiffSum(u_kpts[i], u_kpts[j]) < KPT_DIFF_TOL
          /\ AbsDiffSum(u_kpts[j], u_kpts[k]) < KPT_DIFF_TOL
          /\ ~(AbsDiffSum(u_kpts[i], u_kpts[k]) < KPT_DIFF_TOL)
          /\ uniq_inverse[i] = 0
          /\ uniq_inverse[j] = 1
          /\ uniq_inverse[k] = 1

\* the input position of the representative of group g
IndexAt(g) == uniq_index[g + 1]

\* C12: unique returns a strictly increasing index list, representatives
\* that are pairwise not within KPT_DIFF_TOL of each other, and
\* inverse[index[g]] = g for every group g.
RepresentativesKept ==
    u_pc = "done" =>
        /\ Len(uniq_index) = Len(uniq_kpts)
        /\ \A g \in Range0(Len(uniq_index)) :
              /\ IndexAt(g) \in DOMAIN u_kpts
              /\ UniqAt(g) = u_kpts[IndexAt(g)]
              /\ uniq_inverse[IndexAt(g)] = g
        /\ \A g, h \in Range0(Len(uniq_index)) :
              g < h =>
                /\ IndexAt(g) < IndexAt(h)
                /\ ~(AbsDiffSum(UniqAt(g), UniqAt(h)) < KPT_DIFF_TOL)

\* C12 witness: unique has returned two groups, and the second group's
\* marking overwrote the group id of a point that is not a representative
\* and lies within tolerance of the first representative
RepresentativesKeptWitness ==
    /\ u_pc = "done"
    /\ Len(uniq_index) = 2
    /\ \E j \in DOMAIN u_kpts :
          /\ j # IndexAt(0) /\ j # IndexAt(1)
          /\ IndexAt(0) < j
          /\ AbsDiffSum(UniqAt(0), u_kpts[j]) < KPT_DIFF_TOL
          /\ uniq_inverse[j] = 1

\* the axis of the result that belongs to group d of kijkab (a range)
AxisOf(d) == Cardinality({e \in 1..d : ~g_kijkab[e].int})

\* the k-point index group d contributes to the entry ix of the result
SelectedBy(d, ix) ==
    IF g_kijkab[d].int THEN g_kijkab[d].idx[1]
    ELSE g_kijkab[d].idx[ix[AxisOf(d)] + 1]

\* the sizes of the groups that are ranges, in order
RangeSizes ==
    [a \in 1..AxisOf(5) |->
        GroupSize(g_kijkab[CHOOSE d \in 1..5 :
                              ~g_kijkab[d].int /\ AxisOf(d) = a])]

\* ki + kj + kk - ka - kb - kc is a reciprocal-lattice vector
Closes5(kpts, m, i, j, k, a, b, c) ==
    \A w \in 1..KDim :
        (kpts[i][w] + kpts[j][w] + kpts[k][w]
           - kpts[a][w] - kpts[b][w] - kpts[c][w]) % m[w] = 0

\* C8: on a well-formed grid get_kconserv3 returns an array with one axis
\* per group that is a range and none for a group that is a single integer,
\* and every entry c closes ki + kj + kk - ka - kb - kc for the k-points
\* that entry selects.
Kconserv3Closes ==
    g_pc = "done" =>
        /\ DOMAIN g_out = IndexSet(RangeSizes)
        /\ \A ix \in DOMAIN g_out :
              /\ g_out[ix] \in DOMAIN g_kpts
              /\ Closes5(g_kpts, g_mesh, SelectedBy(1, ix), SelectedBy(2, ix),
                         SelectedBy(3, ix), SelectedBy(4, ix),
                         SelectedBy(5, ix), g_out[ix])

\* C8 witness: a result over two k-points where one group is the integer 1,
\* one is a range of length one, the others are full ranges, and the
\* entries are not all equal
Kconserv3ClosesWitness ==
    /\ g_pc = "done"
    /\ Cardinality(DOMAIN g_kpts) = 2
    /\ g_kijkab[3] = IntGroup(1)
    /\ g_kijkab[2] = RangeGroup(1)
    /\ \A d \in {1, 4, 5} : g_kijkab[d] = RangeGroup(2)
    /\ \E ix, iy \in DOMAIN g_out : g_out[ix] # g_out[iy]

RECURSIVE LeafDtypes(_)
\* the element types of the arrays of a nested structure
LeafDtypes(data) ==
    IF data.kind = "array" THEN {data.dtype}
    ELSE UNION {LeafDtypes(data.items[k]) : k \in 1..Len(data.items)}

RECURSIVE LeafElements(_)
RECURSIVE LeafElementsItems(_, _)
LeafElementsItems(items, k) ==
    IF k > Len(items) THEN 0
    ELSE LeafElements(items[k]) + LeafElementsItems(items, k + 1)
\* the total number of elements of the arrays of a nested structure
LeafElements(data) ==
    IF data.kind = "array" THEN Prod(data.shape)
    ELSE LeafElementsItems(data.items, 1)

RECURSIVE Depth(_)
RECURSIVE DepthItems(_, _)
DepthItems(items, k) ==
    IF k > Len(items) THEN 0
    ELSE LET a == Depth(items[k])
             b == DepthItems(items, k + 1)
         IN  IF a > b THEN a ELSE b
\* how deep sequences are nested: 0 for an array
Depth(data) == IF data.kind = "array" THEN 0 ELSE 1 + DepthItems(data.items, 1)

RECURSIVE SameNested(_, _)
\* same nesting, same leaf shapes, elementwise equal leaf contents
SameNested(a, b) ==
    /\ a.kind = b.kind
    /\ IF a.kind = "array"
       THEN a.shape = b.shape /\ a.data = b.data
       ELSE /\ Len(a.items) = Len(b.items)
            /\ \A k \in 1..Len(a.items) : SameNested(a.items[k], b.items[k])

\* C1: for a nested structure of depth 1 to 4 whose arrays share one element
\* type, nested_to_vector succeeds, the buffer has as many elements as the
\* leaves, and vector_to_nested with default arguments returns a structure
\* with the same nesting, leaf shapes and leaf contents.
CodecRoundTrip ==
    (Depth(c_data) \in 1..4 /\ Cardinality(LeafDtypes(c_data)) <= 1) =>
        /\ c_pc # "failed"
        /\ c_pc # "start" => Len(c_vec.data) = LeafElements(c_data)
        /\ (c_pc = "restored" /\ ~c_mod /\ c_ensure /\ c_vector = c_vec) =>
              /\ c_result.err = ""
              /\ SameNested(c_result.val, c_data)

\* C2: restoring with one "array" leaf rewritten as a "composite" of its
\* rows completes without error and returns the same structure as restoring
\* with the descriptor nested_to_vector produced.
CompositeRestoreSame ==
    (c_pc = "restored" /\ c_mod) =>
        /\ c_result.err = ""
        /\ SameNested(c_result.val,
               vector_to_nested(c_vec, c_desc.struct, TRUE, NoDest, <<>>).val)

\* C3: describe_nested, and so nested_to_vector, fails whenever the nested
\* structure holds two arrays of different element types.
MixedDtypesRejected ==
    (c_pc # "start" /\ Cardinality(LeafDtypes(c_data)) >= 2) =>
        /\ c_desc.err # ""
        /\ c_pc = "failed"

\* C4: with ensure_size_matches=True and a descriptor of "array" leaves and
\* sequences with T elements in all, vector_to_nested fails when the buffer
\* length is not T, and succeeds only when it is exactly T.
SizeMismatchRejected ==
    (c_pc = "restored" /\ ~c_mod /\ c_ensure) =>
        /\ Len(c_vector.data) # LeafElements(c_data) => c_result.err = "ValueError"
        /\ c_result.err = "" => Len(c_vector.data) = LeafElements(c_data)

\* C4 witness: a descriptor nested two deep with several leaves was restored
\* with ensure_size_matches=True against a buffer one element too long, and
\* the call failed
SizeMismatchRejectedWitness ==
    /\ c_pc = "restored" /\ ~c_mod /\ c_ensure
    /\ Depth(c_data) >= 2
    /\ Cardinality(ArrayPaths(c_desc.struct)) >= 2
    /\ Len(c_vector.data) = LeafElements(c_data) + 1
    /\ c_result.err = "ValueError"

\* C10: for t2 = t + t.transpose(1,0,2,4,3,5,6) built from an arbitrary
\* array t, check_kpt_antiperm_symmetry(t2, 0, 1) returns True.
DocExampleReturnsTrue ==
    (a_pc = "checked_built" /\ a_idx1 = 0 /\ a_idx2 = 1) => a_result = "True"

=============================================================================
